---- MODULE Spec2Model ----
(***************************************************************************)
(* The to-do list store of todo-app-phi: the useTodoViewModel hook in its  *)
(* two variants (browser localStorage, and Supabase through TodoService),  *)
(* the TodoModel record and the todos table behind TodoService.            *)
(*                                                                         *)
(* A record is [id, text, completed, dueDate, obj, owner].  id, text,      *)
(* completed and dueDate are the fields of TodoModel.  obj is the identity *)
(* of the JavaScript object: k > 0 for the object TodoModel.create built   *)
(* in the k-th command, 0 for every other object (a spread copy, a parsed  *)
(* JSON value, an object built by TodoService); the only identity test of  *)
(* the code, t === newTodoModel, compares against a created object.  owner *)
(* is a history field (not a field of the program's objects): the userId   *)
(* under which the record was created.                                     *)
(***************************************************************************)
EXTENDS Integers, Sequences, FiniteSets, TLC

\* Bounds of the model.
\* Events in one behaviour: commands and userId changes.
MaxOps == 3
\* Identity values the todos table hands out when it is modelled on its own.
MaxRows == 3

\* Date.now() at construction; the table's int8 identity ids start far below it.
Now0 == 10

Users == {"A", "B"}

\* Texts are sequences of characters, so that trimming is computed.
\* The (text, dueDate) arguments an add may carry: two blank texts and a valid one.
AddInputs ==
  { << << >>, "2024-01-01" >>, << <<" ">>, "" >>, << <<" ", "x">>, "2024-01-01" >> }
\* The updatedFields an edit may carry.
EditFields == { [completed |-> TRUE], [text |-> << >>, dueDate |-> "2024-01-02"] }

\* localStorage.getItem gives null for a key that was never set.
Null == [saved |-> FALSE, json |-> << >>]

VARIABLES
  variant,        \* which useTodoViewModel is mounted
  service,        \* which TodoService the Supabase hook imports, "none" for the local hook
  userId,         \* the userId argument of the hook at the last render
  todos,          \* React state: the active list
  archivedTodos,  \* React state: the archived list
  storage,        \* localStorage: storage[u] = [todos, archivedTodos], Null when absent
  effq,           \* effects of the last commit that have not run yet, in order
  dirty,          \* state set by an effect since the last render
  db,             \* the rows of the todos table, in created_at order
  nextRowId,      \* the table's identity counter
  calls,          \* gateway calls in flight
  clock,          \* Date.now()
  nOps,           \* events so far; also numbers the created objects and the calls
  reported,       \* the error the last command surfaced to its caller, "none" if none
  logged,         \* whether console.error has been called
  session,        \* React state of App: the session last handed to setSession
  loading,        \* React state of App: auth initialization has not answered yet
  authSession,    \* the session supabase.auth holds
  getSession,     \* the promise of supabase.auth.getSession()
  events,         \* auth state changes the onAuthStateChange listener has yet to be called with
  leftWith        \* history: the lists each userId was left with when the local hook was
                  \* last rendered for another one, Null after a command under that userId

vars == <<variant, service, userId, todos, archivedTodos, storage, effq, dirty, db, nextRowId,
          calls, clock, nOps, reported, logged, session, loading, authSession, getSession,
          events, leftWith>>

localVars == <<storage, effq, dirty>>
remoteVars == <<db, nextRowId, calls>>
authVars == <<session, loading, authSession, getSession, events>>

\* session is null.
NoSession == "null"

\* No userId has been left yet.
NeverLeft == [u \in Users |-> Null]

\* The hook and the table are taken without the App component around them.
AppNotMounted ==
  /\ session = NoSession
  /\ loading = TRUE
  /\ authSession = NoSession
  /\ getSession = [stage |-> "none", data |-> NoSession]
  /\ events = << >>

-----------------------------------------------------------------------------
\* Helpers on sequences.

MapSeq(s, F(_)) == [i \in DOMAIN s |-> F(s[i])]

\* Array.prototype.find: the first element with the id; Has tells whether there is one.
Has(s, id) == \E i \in DOMAIN s : s[i].id = id

Find(s, id) ==
  s[CHOOSE i \in DOMAIN s : s[i].id = id /\ \A j \in 1..(i - 1) : s[j].id # id]

IdsOf(s) == { s[i].id : i \in DOMAIN s }

-----------------------------------------------------------------------------
\* TodoModel

\* String.prototype.trim on a sequence of characters.
RECURSIVE TrimLeft(_)
TrimLeft(t) == IF t # << >> /\ Head(t) = " " THEN TrimLeft(Tail(t)) ELSE t

RECURSIVE TrimRight(_)
TrimRight(t) ==
  IF t # << >> /\ t[Len(t)] = " " THEN TrimRight(SubSeq(t, 1, Len(t) - 1)) ELSE t

Trim(t) == TrimRight(TrimLeft(t))

\* The guard of TodoModel.create: !text || text.trim() === ''
IsBlank(text) == text = << >> \/ Trim(text) = << >>

\* A constructor that keeps the trimmed text instead of the text it was given.
TodoModelTrimmed(text, dueDate, now, k, u) ==
  [id |-> now, text |-> Trim(text), completed |-> FALSE, dueDate |-> dueDate,
   obj |-> k, owner |-> u]

\* new TodoModel(text, dueDate) built in command k under owner u at time now.
TodoModel(text, dueDate, now, k, u) ==
  [id |-> now, text |-> text, completed |-> FALSE, dueDate |-> dueDate,
   obj |-> k, owner |-> u]

\* { ...todo, ...updatedFields }: a new object.
Merge(todo, fields) ==
  [f \in DOMAIN todo |->
     IF f = "obj" THEN 0
     ELSE IF f \in DOMAIN fields THEN fields[f] ELSE todo[f]]

\* { ...todo, completed: v }
WithCompleted(todo, v) == Merge(todo, [completed |-> v])

-----------------------------------------------------------------------------
\* localStorage and JSON

\* localStorage.setItem(key, str): the entry that getItem then returns.
Saved(str) == [saved |-> TRUE, json |-> str]

\* JSON.stringify of a list of records: the fields survive, the identity does not.
JSONstringify(list) ==
  [i \in DOMAIN list |->
     [id |-> list[i].id, text |-> list[i].text, completed |-> list[i].completed,
      dueDate |-> list[i].dueDate, owner |-> list[i].owner]]

JSONparse(str) ==
  [i \in DOMAIN str |->
     [id |-> str[i].id, text |-> str[i].text, completed |-> str[i].completed,
      dueDate |-> str[i].dueDate, obj |-> 0, owner |-> str[i].owner]]

\* A load that ignores the saved entry.
LoadSavedNothing(saved) == << >>

\* saved ? JSON.parse(saved) : []
LoadSaved(saved) == IF saved = Null THEN << >> ELSE JSONparse(saved.json)

EmptyStorage == [u \in Users |-> [todos |-> Null, archivedTodos |-> Null]]

\* The three effects of the local hook, in the order they are declared; a save
\* effect carries the key and the list of the render that scheduled it.
ResetEffect(u) == [eff |-> "reset", key |-> u, val |-> << >>]
SaveTodosEffect(u, list) == [eff |-> "saveTodos", key |-> u, val |-> list]
\* A save of the archived list that writes the entry of the active list.
SaveArchivedEffectOneEntry(u, list) == [eff |-> "saveTodos", key |-> u, val |-> list]
SaveArchivedEffect(u, list) == [eff |-> "saveArchived", key |-> u, val |-> list]

-----------------------------------------------------------------------------
\* The commands of the localStorage variant, as functions of the rendered lists.

\* setTodos([...todos, newTodo])
addTodoLocalState(ts, newTodo) == Append(ts, newTodo)

\* todos.map(todo => todo.id === id ? { ...todo, completed: !todo.completed } : todo)
toggleCompleteLocalState(ts, id) ==
  MapSeq(ts, LAMBDA t : IF t.id = id THEN WithCompleted(t, ~t.completed) ELSE t)

\* todos.map(todo => todo.id === id ? { ...todo, ...updatedFields } : todo)
editTodoLocalState(ts, id, fields) ==
  MapSeq(ts, LAMBDA t : IF t.id = id THEN Merge(t, fields) ELSE t)

\* todos.filter(todo => todo.id !== id)
RemoveId(ts, id) == SelectSeq(ts, LAMBDA t : t.id # id)

\* archiveCompleted: <<incompleteTodos, [...archivedTodos, ...completedTodos]>>
archiveCompletedLocalState(ts, as) ==
  << SelectSeq(ts, LAMBDA t : ~t.completed),
     as \o SelectSeq(ts, LAMBDA t : t.completed) >>

\* unarchiveTodo, when the id is found in archivedTodos.
unarchiveTodoLocalState(ts, as, id) ==
  LET todoToUnarchive == Find(as, id)
  IN  << Append(ts, WithCompleted(todoToUnarchive, FALSE)), RemoveId(as, id) >>

\* The ids a command may name: every resident id, and one that is nowhere.
NoSuchId == 0
CommandIds == IdsOf(todos) \cup IdsOf(archivedTodos) \cup {NoSuchId}

\* The local hook is between events: every effect has run and nothing waits for a render.
LocalIdle == variant = "local" /\ effq = << >> /\ dirty = {} /\ nOps < MaxOps

\* What every command of the local hook leaves alone, and the outcome it gives.
LocalCommand ==
  /\ nOps' = nOps + 1
  /\ reported' = "none"
  /\ leftWith' = [leftWith EXCEPT ![userId] = Null]
  /\ UNCHANGED <<variant, service, userId, storage, dirty>>
  /\ UNCHANGED remoteVars

addTodoLocal(text, dueDate, now) ==
  /\ LocalIdle
  /\ IF IsBlank(text)
     THEN /\ LocalCommand   \* catch: console.error only
          /\ logged' = TRUE
          /\ UNCHANGED authVars
          /\ UNCHANGED <<todos, archivedTodos, effq, clock>>
     ELSE /\ todos' = addTodoLocalState(todos,
                         TodoModel(text, dueDate, now, nOps + 1, userId))
          /\ effq' = <<SaveTodosEffect(userId, todos')>>
          /\ clock' = now
          /\ LocalCommand
          /\ UNCHANGED <<logged, authVars>>
          /\ UNCHANGED archivedTodos

toggleCompleteLocal(id) ==
  /\ LocalIdle
  /\ UNCHANGED clock
  /\ todos' = toggleCompleteLocalState(todos, id)
  /\ effq' = <<SaveTodosEffect(userId, todos')>>
  /\ LocalCommand
  /\ UNCHANGED <<logged, authVars>>
  /\ UNCHANGED archivedTodos

editTodoLocal(id, fields) ==
  /\ LocalIdle
  /\ UNCHANGED clock
  /\ todos' = editTodoLocalState(todos, id, fields)
  /\ effq' = <<SaveTodosEffect(userId, todos')>>
  /\ LocalCommand
  /\ UNCHANGED <<logged, authVars>>
  /\ UNCHANGED archivedTodos

deleteTodoLocal(id) ==
  /\ LocalIdle
  /\ UNCHANGED clock
  /\ todos' = RemoveId(todos, id)
  /\ effq' = <<SaveTodosEffect(userId, todos')>>
  /\ LocalCommand
  /\ UNCHANGED <<logged, authVars>>
  /\ UNCHANGED archivedTodos

archiveCompletedLocal ==
  /\ LocalIdle
  /\ UNCHANGED clock
  /\ todos' = archiveCompletedLocalState(todos, archivedTodos)[1]
  /\ archivedTodos' = archiveCompletedLocalState(todos, archivedTodos)[2]
  /\ effq' = <<SaveTodosEffect(userId, todos'), SaveArchivedEffect(userId, archivedTodos')>>
  /\ LocalCommand
  /\ UNCHANGED <<logged, authVars>>

unarchiveTodoLocal(id) ==
  /\ LocalIdle
  /\ UNCHANGED clock
  /\ IF Has(archivedTodos, id)
     THEN /\ todos' = unarchiveTodoLocalState(todos, archivedTodos, id)[1]
          /\ archivedTodos' = unarchiveTodoLocalState(todos, archivedTodos, id)[2]
          /\ effq' = <<SaveTodosEffect(userId, todos'),
                       SaveArchivedEffect(userId, archivedTodos')>>
     ELSE UNCHANGED <<todos, archivedTodos, effq>>
  /\ LocalCommand
  /\ UNCHANGED <<logged, authVars>>

deleteArchivedTodoLocal(id) ==
  /\ LocalIdle
  /\ UNCHANGED clock
  /\ archivedTodos' = RemoveId(archivedTodos, id)
  /\ effq' = <<SaveArchivedEffect(userId, archivedTodos')>>
  /\ LocalCommand
  /\ UNCHANGED <<logged, authVars>>
  /\ UNCHANGED todos

\* The hook is rendered with another userId: the state is still the previous
\* user's, and all three effects are scheduled with the new keys.
SwitchUserLocal(u) ==
  /\ LocalIdle
  /\ u # userId
  /\ userId' = u
  /\ effq' = <<ResetEffect(u), SaveTodosEffect(u, todos),
               SaveArchivedEffect(u, archivedTodos)>>
  /\ nOps' = nOps + 1
  /\ leftWith' = [leftWith EXCEPT
                    ![userId] = Saved(<<JSONstringify(todos), JSONstringify(archivedTodos)>>)]
  /\ UNCHANGED <<variant, service, todos, archivedTodos, storage, dirty, clock, reported,
                 logged, authVars>>
  /\ UNCHANGED remoteVars

\* The next scheduled effect runs.
RunEffect ==
  /\ variant = "local"
  /\ effq # << >>
  /\ LET e == Head(effq) IN
       CASE e.eff = "reset" ->
              /\ todos' = LoadSaved(storage[e.key].todos)
              /\ archivedTodos' = LoadSaved(storage[e.key].archivedTodos)
              /\ dirty' = {"todos", "archivedTodos"}
              /\ UNCHANGED storage
         [] e.eff = "saveTodos" ->
              /\ storage' = [storage EXCEPT ![e.key].todos = Saved(JSONstringify(e.val))]
              /\ UNCHANGED <<todos, archivedTodos, dirty>>
         [] e.eff = "saveArchived" ->
              /\ storage' = [storage EXCEPT ![e.key].archivedTodos = Saved(JSONstringify(e.val))]
              /\ UNCHANGED <<todos, archivedTodos, dirty>>
  /\ effq' = Tail(effq)
  /\ UNCHANGED <<variant, service, userId, clock, nOps, reported, logged, authVars, leftWith>>
  /\ UNCHANGED remoteVars

\* The render that follows the reset effect's setTodos / setArchivedTodos: the
\* save effects whose list changed are scheduled again.
Rerender ==
  /\ variant = "local"
  /\ effq = << >>
  /\ dirty # {}
  /\ effq' = (IF "todos" \in dirty THEN <<SaveTodosEffect(userId, todos)>> ELSE << >>)
             \o (IF "archivedTodos" \in dirty
                 THEN <<SaveArchivedEffect(userId, archivedTodos)>> ELSE << >>)
  /\ dirty' = {}
  /\ UNCHANGED <<variant, service, userId, todos, archivedTodos, storage, clock, nOps,
                 reported, logged, authVars, leftWith>>
  /\ UNCHANGED remoteVars

\* Date.now() read by a command: the millisecond of the last reading, or a later one.
Nows == {clock, clock + 1}

-----------------------------------------------------------------------------
\* The todos table and TodoService (the Supabase gateway).

\* A row of the table: columns id, text, completed, due_date, user_id.
Row(id, todo, uid) ==
  [id |-> id, text |-> todo.text, completed |-> todo.completed,
   due_date |-> todo.dueDate, user_id |-> uid]

\* The TodoModel that getAllTodos and addTodo build from a returned row.
FromRow(item) ==
  [id |-> item.id, text |-> item.text, completed |-> item.completed,
   dueDate |-> item.due_date, obj |-> 0, owner |-> item.user_id]

\* The row-level policies: every operation sees the rows whose user_id is auth.uid().
Visible(item, auth) == item.user_id = auth

\* select('*').order('created_at'), mapped to TodoModel.
getAllTodosData(rows, auth) ==
  MapSeq(SelectSeq(rows, LAMBDA item : Visible(item, auth)), FromRow)

\* update({text, completed, due_date}).eq('id', todo.id)
updateTodoRows(rows, todo, auth) ==
  MapSeq(rows, LAMBDA item :
    IF item.id = todo.id /\ Visible(item, auth)
    THEN [item EXCEPT !.text = todo.text, !.completed = todo.completed,
                      !.due_date = todo.dueDate]
    ELSE item)

\* delete().eq('id', id)
deleteTodoRows(rows, id, auth) ==
  SelectSeq(rows, LAMBDA item : ~(item.id = id /\ Visible(item, auth)))

NoTodo == [id |-> NoSuchId]

\* A gateway call in flight.  k numbers the call; auth is the session the request
\* was sent with; stage is "sent" until the table has applied the call, then "ok";
\* data is the answer.  why and from are history fields: the command that issued
\* the call, and the list toggleComplete found the record in.
Call(k, op, todo, auth, why, from) ==
  [k |-> k, op |-> op, todo |-> todo, auth |-> auth, stage |-> "sent",
   data |-> << >>, why |-> why, from |-> from]

\* The entry that stands for the JavaScript value undefined in a list; no record
\* has its id.  owner is the history field of the add that produced it.
UndefinedId == -1
Undefined(u) ==
  [id |-> UndefinedId, text |-> << >>, completed |-> FALSE, dueDate |-> "",
   obj |-> 0, owner |-> u]

\* The TodoService of src/service/TodoService.js answers at once and reaches no
\* table: getAllTodos returns [], the other three return undefined.
StubAnswer(c) ==
  [c EXCEPT !.stage = "ok",
            !.data = IF c.op = "addTodo" THEN <<Undefined(c.auth)>> ELSE << >>]

\* The call as it leaves the hook, under the imported TodoService.
Issue(c) == IF service = "stub" THEN StubAnswer(c) ELSE c

\* The table applies a getAllTodos or an addTodo call; the answer is on its way.
\* (updateTodo and deleteTodo answer with no data: Resolve applies them.)
ServerHandle(c) ==
  /\ variant = "remote"
  /\ c \in calls
  /\ c.stage = "sent"
  /\ \/ /\ c.op = "getAllTodos"
        /\ calls' = (calls \ {c}) \cup
                    {[c EXCEPT !.stage = "ok", !.data = getAllTodosData(db, c.auth)]}
        /\ UNCHANGED <<db, nextRowId>>
     \/ /\ c.op = "addTodo"
        /\ db' = Append(db, Row(nextRowId, c.todo, c.auth))
        /\ nextRowId' = nextRowId + 1
        /\ calls' = (calls \ {c}) \cup
                    {[c EXCEPT !.stage = "ok", !.data = <<FromRow(db'[Len(db')])>>]}
  /\ UNCHANGED <<variant, service, userId, todos, archivedTodos, clock, nOps, reported,
                 logged, authVars, leftWith>>
  /\ UNCHANGED localVars

-----------------------------------------------------------------------------
\* The commands of the Supabase variant.

\* prev.map(t => t === newTodoModel ? savedTodo : t)
ReplaceObject(ts, k, savedTodo) ==
  MapSeq(ts, LAMBDA t : IF t.obj = k THEN savedTodo ELSE t)

\* toggleComplete's optimistic update, for the record it found: <<todos, archivedTodos>>
toggleCompleteRemoteState(ts, as, todo) ==
  LET updatedTodo == WithCompleted(todo, ~todo.completed)
  IN  IF updatedTodo.completed
      THEN << RemoveId(ts, todo.id), Append(as, updatedTodo) >>
      ELSE << Append(ts, updatedTodo), RemoveId(as, todo.id) >>

\* todos.find(t => t.id === id) || archivedTodos.find(t => t.id === id)
FindEither(ts, as, id) == IF Has(ts, id) THEN Find(ts, id) ELSE Find(as, id)

\* An edit that takes the record out and appends the edited one.
editTodoRemoteStateMoveLast(ts, id, updatedTodo) == Append(RemoveId(ts, id), updatedTodo)

\* prev.map(t => t.id === id ? updatedTodo : t)
editTodoRemoteState(ts, id, updatedTodo) ==
  MapSeq(ts, LAMBDA t : IF t.id = id THEN updatedTodo ELSE t)

\* The view threw on an undefined entry of todos (todo.id in TodoList) and React
\* unmounted the tree: the hook takes no further event.
Crashed == \E i \in DOMAIN todos : todos[i].id = UndefinedId

\* The remote hook takes the next event.  The stub's promises are already
\* resolved, so their continuations run before any later event.
RemoteIdle ==
  /\ variant = "remote"
  /\ nOps < MaxOps
  /\ ~Crashed
  /\ service = "stub" => calls = {}

\* What every command of the remote hook leaves alone, and the outcome it gives.
RemoteCommand ==
  /\ nOps' = nOps + 1
  /\ reported' = "none"
  /\ UNCHANGED <<variant, service, userId, db, nextRowId>>
  /\ UNCHANGED localVars

addTodoRemote(text, dueDate, now) ==
  /\ RemoteIdle
  /\ IF IsBlank(text)
     THEN /\ RemoteCommand   \* catch: console.error only
          /\ logged' = TRUE
          /\ UNCHANGED <<authVars, leftWith>>
          /\ UNCHANGED <<todos, archivedTodos, calls, clock>>
     ELSE /\ LET newTodoModel == TodoModel(text, dueDate, now, nOps + 1, userId) IN
               /\ todos' = Append(todos, newTodoModel)
               /\ calls' = calls \cup
                    {Issue(Call(nOps + 1, "addTodo", newTodoModel, userId, "add", "todos"))}
          /\ clock' = now
          /\ RemoteCommand
          /\ UNCHANGED <<logged, authVars, leftWith>>
          /\ UNCHANGED archivedTodos

toggleCompleteRemote(id) ==
  /\ RemoteIdle
  /\ UNCHANGED clock
  /\ LET todo == FindEither(todos, archivedTodos, id) IN
       IF ~(Has(todos, id) \/ Has(archivedTodos, id))
       THEN UNCHANGED <<todos, archivedTodos, calls>>
       ELSE /\ todos' = toggleCompleteRemoteState(todos, archivedTodos, todo)[1]
            /\ archivedTodos' = toggleCompleteRemoteState(todos, archivedTodos, todo)[2]
            /\ calls' = calls \cup
                 {Issue(Call(nOps + 1, "updateTodo", WithCompleted(todo, ~todo.completed), userId,
                       "toggle",
                       IF Has(todos, id) THEN "todos" ELSE "archivedTodos"))}
  /\ RemoteCommand
  /\ UNCHANGED <<logged, authVars, leftWith>>

editTodoRemote(id, fields) ==
  /\ RemoteIdle
  /\ UNCHANGED clock
  /\ LET todo == Find(todos, id) IN
       IF ~Has(todos, id)
       THEN UNCHANGED <<todos, calls>>
       ELSE /\ todos' = editTodoRemoteState(todos, id, Merge(todo, fields))
            /\ calls' = calls \cup
                 {Issue(Call(nOps + 1, "updateTodo", Merge(todo, fields), userId, "edit", "todos"))}
  /\ RemoteCommand
  /\ UNCHANGED <<logged, authVars, leftWith>>
  /\ UNCHANGED archivedTodos

\* A deleteTodo that waits for the gateway before it touches the list.
deleteTodoRemoteAwaitFirst(id) ==
  /\ RemoteIdle
  /\ UNCHANGED clock
  /\ UNCHANGED todos
  /\ calls' = calls \cup {Issue(Call(nOps + 1, "deleteTodo", [id |-> id], userId, "delete", "todos"))}
  /\ RemoteCommand
  /\ UNCHANGED <<logged, authVars, leftWith>>
  /\ UNCHANGED archivedTodos

deleteTodoRemote(id) ==
  /\ RemoteIdle
  /\ UNCHANGED clock
  /\ todos' = RemoveId(todos, id)
  /\ calls' = calls \cup {Issue(Call(nOps + 1, "deleteTodo", [id |-> id], userId, "delete", "todos"))}
  /\ RemoteCommand
  /\ UNCHANGED <<logged, authVars, leftWith>>
  /\ UNCHANGED archivedTodos

\* archiveCompleted as the local variant has it, without a gateway call.
archiveCompletedRemoteMoves ==
  /\ RemoteIdle
  /\ UNCHANGED clock
  /\ RemoteCommand
  /\ UNCHANGED <<logged, authVars, leftWith>>
  /\ todos' = archiveCompletedLocalState(todos, archivedTodos)[1]
  /\ archivedTodos' = archiveCompletedLocalState(todos, archivedTodos)[2]
  /\ UNCHANGED calls

\* The body of archiveCompleted is empty.
archiveCompletedRemote ==
  /\ RemoteIdle
  /\ UNCHANGED clock
  /\ RemoteCommand
  /\ UNCHANGED <<logged, authVars, leftWith>>
  /\ UNCHANGED <<todos, archivedTodos, calls>>

unarchiveTodoRemote(id) ==
  /\ RemoteIdle
  /\ UNCHANGED clock
  /\ LET todo == Find(archivedTodos, id) IN
       IF ~Has(archivedTodos, id)
       THEN UNCHANGED <<todos, archivedTodos, calls>>
       ELSE /\ archivedTodos' = RemoveId(archivedTodos, id)
            /\ todos' = Append(todos, WithCompleted(todo, FALSE))
            /\ calls' = calls \cup
                 {Issue(Call(nOps + 1, "updateTodo", WithCompleted(todo, FALSE), userId,
                       "unarchive", "archivedTodos"))}
  /\ RemoteCommand
  /\ UNCHANGED <<logged, authVars, leftWith>>

deleteArchivedTodoRemote(id) ==
  /\ RemoteIdle
  /\ UNCHANGED clock
  /\ archivedTodos' = RemoveId(archivedTodos, id)
  /\ calls' = calls \cup
       {Issue(Call(nOps + 1, "deleteTodo", [id |-> id], userId, "deleteArchived", "archivedTodos"))}
  /\ RemoteCommand
  /\ UNCHANGED <<logged, authVars, leftWith>>
  /\ UNCHANGED todos

\* The hook is rendered with another userId: the effect calls loadTodos; the
\* lists are not touched until the answer arrives.
SwitchUserRemote(u) ==
  /\ RemoteIdle
  /\ u # userId
  /\ userId' = u
  /\ calls' = calls \cup {Issue(Call(nOps + 1, "getAllTodos", NoTodo, u, "load", "todos"))}
  /\ nOps' = nOps + 1
  /\ UNCHANGED <<variant, service, todos, archivedTodos, db, nextRowId, clock, reported,
                 logged, authVars, leftWith>>
  /\ UNCHANGED localVars

\* A load that puts every fetched record in the active list.
loadTodosStateAllActive(fetchedTodos) == << fetchedTodos, << >> >>

\* loadTodos after the await: <<active, completed>>, set as todos and archivedTodos.
loadTodosState(fetchedTodos) ==
  << SelectSeq(fetchedTodos, LAMBDA t : ~t.completed),
     SelectSeq(fetchedTodos, LAMBDA t : t.completed) >>

\* A failed call that is sent again, as a call of its own, by the catch block.
ResolveErrorRetry(c) ==
  /\ variant = "remote"
  /\ c \in calls
  /\ c.stage = "sent"
  /\ calls' = (calls \ {c}) \cup {[c EXCEPT !.k = -1 - c.k]}
  /\ UNCHANGED <<todos, archivedTodos, db, nextRowId>>
  /\ UNCHANGED <<variant, service, userId, clock, nOps, reported>>
  /\ logged' = TRUE
  /\ UNCHANGED <<authVars, leftWith>>
  /\ UNCHANGED localVars

\* The awaited call fails: the request did not reach the table, and the catch
\* block of the command writes to the console.
ResolveError(c) ==
  /\ variant = "remote"
  /\ c \in calls
  /\ c.stage = "sent"
  /\ calls' = calls \ {c}
  /\ UNCHANGED <<todos, archivedTodos, db, nextRowId>>
  /\ UNCHANGED <<variant, service, userId, clock, nOps, reported>>
  /\ logged' = TRUE
  /\ UNCHANGED <<authVars, leftWith>>
  /\ UNCHANGED localVars

\* The awaited call returns to the command that issued it.
Resolve(c) ==
  /\ variant = "remote"
  /\ c \in calls
  /\ calls' = calls \ {c}
  /\ CASE c.op = "getAllTodos" ->
            /\ c.stage = "ok"
            /\ todos' = loadTodosState(c.data)[1]
            /\ archivedTodos' = loadTodosState(c.data)[2]
            /\ UNCHANGED db
       [] c.op = "addTodo" ->
            /\ c.stage = "ok"
            /\ todos' = ReplaceObject(todos, c.k, c.data[1])
            /\ UNCHANGED <<archivedTodos, db>>
       [] c.op = "updateTodo" ->
            /\ db' = IF service = "stub" THEN db ELSE updateTodoRows(db, c.todo, c.auth)
            /\ UNCHANGED <<todos, archivedTodos>>
       [] c.op = "deleteTodo" ->
            /\ db' = IF service = "stub" THEN db ELSE deleteTodoRows(db, c.todo.id, c.auth)
            /\ UNCHANGED <<todos, archivedTodos>>
  /\ UNCHANGED <<variant, service, userId, nextRowId, clock, nOps, reported, logged,
                 authVars, leftWith>>
  /\ UNCHANGED localVars

-----------------------------------------------------------------------------
\* The state after the hook is mounted for its first userId.

Services == {"supabase", "stub"}

InitLocal ==
  /\ variant = "local"
  /\ service = "none"
  /\ effq = <<ResetEffect(userId), SaveTodosEffect(userId, << >>),
              SaveArchivedEffect(userId, << >>)>>
  /\ calls = {}

InitRemote ==
  /\ variant = "remote"
  /\ service \in Services
  /\ effq = << >>
  /\ calls = {Issue(Call(0, "getAllTodos", NoTodo, userId, "load", "todos"))}

Init ==
  /\ userId = "A"
  /\ todos = << >>
  /\ archivedTodos = << >>
  /\ storage = EmptyStorage
  /\ dirty = {}
  /\ db = << >>
  /\ nextRowId = 1
  /\ clock = Now0
  /\ nOps = 0
  /\ reported = "none"
  /\ logged = FALSE
  /\ AppNotMounted
  /\ leftWith = NeverLeft
  /\ (InitLocal \/ InitRemote)

NextLocal ==
  \/ \E in \in AddInputs, now \in Nows : addTodoLocal(in[1], in[2], now)
  \/ \E id \in CommandIds : toggleCompleteLocal(id)
  \/ \E id \in CommandIds, fields \in EditFields : editTodoLocal(id, fields)
  \/ \E id \in CommandIds : deleteTodoLocal(id)
  \/ archiveCompletedLocal
  \/ \E id \in CommandIds : unarchiveTodoLocal(id)
  \/ \E id \in CommandIds : deleteArchivedTodoLocal(id)
  \/ \E u \in Users : SwitchUserLocal(u)
  \/ RunEffect
  \/ Rerender

NextRemote ==
  \/ \E in \in AddInputs, now \in Nows : addTodoRemote(in[1], in[2], now)
  \/ \E id \in CommandIds : toggleCompleteRemote(id)
  \/ \E id \in CommandIds, fields \in EditFields : editTodoRemote(id, fields)
  \/ \E id \in CommandIds : deleteTodoRemote(id)
  \/ archiveCompletedRemote
  \/ \E id \in CommandIds : unarchiveTodoRemote(id)
  \/ \E id \in CommandIds : deleteArchivedTodoRemote(id)
  \/ \E u \in Users : SwitchUserRemote(u)
  \/ \E c \in calls : ServerHandle(c)
  \/ \E c \in calls : ResolveError(c)
  \/ \E c \in calls : Resolve(c)

Next == NextLocal \/ NextRemote

Spec == Init /\ [][Next]_vars

\* Each variant alone.
InitLocalHook == Init /\ variant = "local"
InitRemoteHook == Init /\ variant = "remote"
SpecLocal == InitLocalHook /\ [][NextLocal]_vars
SpecRemote == InitRemoteHook /\ [][NextRemote]_vars

-----------------------------------------------------------------------------
\* Properties.

Records(list) == { list[i] : i \in DOMAIN list }

\* The completed values of the entries of a list that carry the id, in order.
FlagsOf(list, id) ==
  MapSeq(SelectSeq(list, LAMBDA t : t.id = id), LAMBDA t : t.completed)

\* Some command adds the text with the due date, reading the clock as now.
AddStep(text, dueDate, now) ==
  addTodoLocal(text, dueDate, now) \/ addTodoRemote(text, dueDate, now)

\* C1: no record id is in the active list and in the archived list at the same
\* time, in any reachable state of either variant.
C1_PartitionsDisjoint == IdsOf(todos) \cap IdsOf(archivedTodos) = {}

C3_BlankAddReportsValidationError ==
  [][\A in \in AddInputs, now \in Nows :
       (IsBlank(in[1]) /\ AddStep(in[1], in[2], now)) =>
         /\ UNCHANGED <<todos, archivedTodos, calls>>
         /\ reported' = "ValidationError"]_vars

\* C4: when the insert of an add fails, the record that add put in the active
\* list is in neither list once the call has resolved.
C4_FailedInsertRolledBack ==
  [][\A c \in calls :
       (c.op = "addTodo" /\ ResolveError(c)) =>
         \A t \in Records(todos') \cup Records(archivedTodos') : t.obj # c.k]_vars

\* C5: the lists exposed for the current userId hold no record of another owner.
C5_NoRecordOfAnotherOwner ==
  \A t \in Records(todos) \cup Records(archivedTodos) : t.owner = userId

\* C6: the result of a gateway call that was issued under another userId than
\* the current one never changes the active or the archived list.
C6_LateResultDiscarded ==
  [][\A c \in calls :
       (c.auth # userId /\ (Resolve(c) \/ ResolveError(c))) =>
         UNCHANGED <<todos, archivedTodos>>]_vars

\* C7: in the localStorage variant the two entries of a user hold only records
\* that were created under that user, in every state, the states between the
\* effects included.
C7_StorageEntriesHoldOwnRecords ==
  \A u \in Users :
    \A t \in Records(storage[u].todos.json) \cup Records(storage[u].archivedTodos.json) :
      t.owner = u

\* toggleComplete(id) applied to the lists, in the mounted variant.
ToggleState(ts, as, id) ==
  IF variant = "local" THEN << toggleCompleteLocalState(ts, id), as >>
  ELSE IF Has(ts, id) \/ Has(as, id)
       THEN toggleCompleteRemoteState(ts, as, FindEither(ts, as, id))
       ELSE << ts, as >>

ToggleTwice(ts, as, id) ==
  ToggleState(ToggleState(ts, as, id)[1], ToggleState(ts, as, id)[2], id)

\* C8: toggleComplete(id) followed by toggleComplete(id) returns the record to
\* the list it was in with the completed value it had, for every resident id.
C8_ToggleTwiceRestores ==
  \A id \in IdsOf(todos) \cup IdsOf(archivedTodos) :
    /\ FlagsOf(ToggleTwice(todos, archivedTodos, id)[1], id) = FlagsOf(todos, id)
    /\ FlagsOf(ToggleTwice(todos, archivedTodos, id)[2], id) = FlagsOf(archivedTodos, id)

\* C9: toggleComplete(id) of the Supabase variant, in one step, flips completed
\* and takes the record out of the list it was in and into the other one: after
\* the step the id is in the opposite list only.
C9_ToggleMovesInOneStep ==
  [][\A id \in CommandIds :
       (toggleCompleteRemote(id) /\ (Has(todos, id) \/ Has(archivedTodos, id))) =>
         IF Has(todos, id)
         THEN /\ ~Has(todos', id)
              /\ FlagsOf(archivedTodos', id) = <<~Find(todos, id).completed>>
         ELSE /\ ~Has(archivedTodos', id)
              /\ FlagsOf(todos', id) = <<~Find(archivedTodos, id).completed>>]_vars

\* C10: when the update of a toggleComplete fails, the record is back in the
\* list it was in before the call, with the completed value it had, and in that
\* list only.
C10_FailedToggleReverted ==
  [][\A c \in calls :
       (c.why = "toggle" /\ ResolveError(c)) =>
         IF c.from = "todos"
         THEN /\ FlagsOf(todos', c.todo.id) = <<~c.todo.completed>>
              /\ ~Has(archivedTodos', c.todo.id)
         ELSE /\ FlagsOf(archivedTodos', c.todo.id) = <<~c.todo.completed>>
              /\ ~Has(todos', c.todo.id)]_vars

\* unarchiveTodo(id) applied to the lists; both variants compute the same lists.
UnarchiveState(ts, as, id) ==
  IF Has(as, id) THEN unarchiveTodoLocalState(ts, as, id) ELSE << ts, as >>

UnarchiveStep(id) == unarchiveTodoLocal(id) \/ unarchiveTodoRemote(id)

\* The list without its first entry that carries the id.
WithoutFirst(list, id) ==
  LET k == CHOOSE i \in DOMAIN list :
             list[i].id = id /\ \A j \in 1..(i - 1) : list[j].id # id
  IN  [i \in 1..(Len(list) - 1) |-> IF i < k THEN list[i] ELSE list[i + 1]]

\* add(text, dueDate), toggleComplete(id), unarchive(id) applied in this order to
\* the lists ts and as, in the mounted variant.
AddToggleUnarchive(ts, as, rec) ==
  LET s1 == << Append(ts, rec), as >>
      s2 == ToggleState(s1[1], s1[2], rec.id)
  IN  UnarchiveState(s2[1], s2[2], rec.id)

\* C11: unarchive(id) of a record in the archived list takes that record out of
\* the archived list and appends it to the active list with completed = false,
\* and changes no other record; and from empty lists, add then toggleComplete
\* then unarchive ends with the record in the active list, completed = false,
\* and an empty archived list.
C11_UnarchiveReturnsToActive ==
  /\ [][\A id \in CommandIds :
          (UnarchiveStep(id) /\ Has(archivedTodos, id)) =>
            /\ archivedTodos' = WithoutFirst(archivedTodos, id)
            /\ Len(todos') = Len(todos) + 1
            /\ SubSeq(todos', 1, Len(todos)) = todos
            /\ todos'[Len(todos')].id = id
            /\ todos'[Len(todos')].text = Find(archivedTodos, id).text
            /\ todos'[Len(todos')].completed = FALSE]_vars
  /\ [](\A in \in AddInputs, now \in Nows :
          (todos = << >> /\ archivedTodos = << >> /\ ~IsBlank(in[1])) =>
            LET rec == TodoModel(in[1], in[2], now, nOps + 1, userId)
                end == AddToggleUnarchive(todos, archivedTodos, rec)
            IN  /\ end[2] = << >>
                /\ Len(end[1]) = 1
                /\ end[1][1].id = rec.id
                /\ end[1][1].text = rec.text
                /\ end[1][1].completed = FALSE)

\* C12: when the update of an unarchive fails, the record is in the archived
\* list again and no longer in the active list once the call has resolved.
C12_FailedUnarchiveReverted ==
  [][\A c \in calls :
       (c.why = "unarchive" /\ ResolveError(c)) =>
         /\ Has(archivedTodos', c.todo.id)
         /\ ~Has(todos', c.todo.id)]_vars

ArchiveStep == archiveCompletedLocal \/ archiveCompletedRemote

\* C13: archiveCompleted moves all and only the completed records of the active
\* list to the end of the archived list: afterwards the active list is its
\* incomplete records in their order, and the archived list is what it was
\* followed by the completed records.
C13_ArchiveMovesCompleted ==
  [][ArchiveStep =>
       /\ todos' = SelectSeq(todos, LAMBDA t : ~t.completed)
       /\ \A i \in DOMAIN todos' : ~todos'[i].completed
       /\ archivedTodos' = archivedTodos \o SelectSeq(todos, LAMBDA t : t.completed)]_vars

\* C14: when the getAllTodos of a load fails, both lists become empty, the
\* failure is reported, and no other getAllTodos is issued.
C14_FailedLoadEmptiesState ==
  [][\A c \in calls :
       (c.op = "getAllTodos" /\ ResolveError(c)) =>
         /\ todos' = << >>
         /\ archivedTodos' = << >>
         /\ reported' = "PersistenceError"
         /\ calls' \subseteq calls]_vars

\* The entries of list at the positions where Keep holds are exactly sub, in order.
IsFilterOf(sub, list, Keep(_)) ==
  \E pos \in [DOMAIN sub -> DOMAIN list] :
    /\ \A i, j \in DOMAIN sub : i < j => pos[i] < pos[j]
    /\ \A i \in DOMAIN sub : sub[i] = list[pos[i]]
    /\ \A k \in DOMAIN list : Keep(list[k]) <=> \E i \in DOMAIN sub : pos[i] = k

\* C15: when getAllTodos succeeds, the load sets the archived list to exactly the
\* returned records with completed = true and the active list to exactly those
\* with completed = false, each in the order returned, which is creation order;
\* every returned record is in exactly one of the two lists.
C15_LoadPartitionsByCompleted ==
  [][\A c \in calls :
       (c.op = "getAllTodos" /\ Resolve(c)) =>
         /\ IsFilterOf(todos', c.data, LAMBDA t : ~t.completed)
         /\ IsFilterOf(archivedTodos', c.data, LAMBDA t : t.completed)
         /\ Len(todos') + Len(archivedTodos') = Len(c.data)
         /\ \A i, j \in DOMAIN c.data : i < j => c.data[i].id < c.data[j].id]_vars

\* A load has resolved with a completed and an incomplete record: the active
\* list holds the row of an insert whose own answer has not been applied yet,
\* which only a load can put there, and the archived list is not empty.
C15_Witness ==
  /\ \A c \in calls : c.op # "getAllTodos"
  /\ archivedTodos # << >>
  /\ \A i \in DOMAIN archivedTodos : archivedTodos[i].completed
  /\ \E c \in calls :
       /\ c.op = "addTodo"
       /\ c.stage = "ok"
       /\ Has(todos, c.data[1].id)

\* The entries of both lists that are records (not undefined).
Resident == { t \in Records(todos) \cup Records(archivedTodos) : t.id # UndefinedId }

\* C16: no record in the active or the archived list has a text that is empty or
\* whitespace-only, in any reachable state.
C16_NoBlankText == \A t \in Resident : ~IsBlank(t.text)

\* The ids of the entries of both lists, one per entry.
AllIds == MapSeq(todos \o archivedTodos, LAMBDA t : t.id)

\* C17: no two entries of the active and archived lists together carry the same
\* id, in any reachable state.
C17_IdsUnique == \A i, j \in DOMAIN AllIds : AllIds[i] = AllIds[j] => i = j

\* How many entries of the two lists carry the id.
Copies(ts, as, id) ==
  Len(SelectSeq(ts, LAMBDA t : t.id = id)) + Len(SelectSeq(as, LAMBDA t : t.id = id))

\* A step of toggleComplete, editTodo, archiveCompleted or unarchiveTodo, up to
\* its await.
KeepingCommand ==
  \/ \E id \in CommandIds : toggleCompleteLocal(id) \/ toggleCompleteRemote(id)
  \/ \E id \in CommandIds, fields \in EditFields :
       editTodoLocal(id, fields) \/ editTodoRemote(id, fields)
  \/ ArchiveStep
  \/ \E id \in CommandIds : UnarchiveStep(id)

\* C18: a successful command other than remove/removeArchived keeps every record:
\* an add leaves the records that were resident as they were; after any other
\* command each id that was resident once is resident once, at the command step
\* and when its gateway call returns; the return of an insert may change the id
\* of the added record but leaves a record at its place.
C18_NoRecordDuplicatedOrLost ==
  /\ [][(\E in \in AddInputs, now \in Nows : AddStep(in[1], in[2], now)) =>
          /\ SubSeq(todos', 1, Len(todos)) = todos
          /\ archivedTodos' = archivedTodos]_vars
  /\ [][KeepingCommand =>
          \A id \in IdsOf(todos) \cup IdsOf(archivedTodos) :
            Copies(todos, archivedTodos, id) = 1 =>
              Copies(todos', archivedTodos', id) = 1]_vars
  /\ [][\A c \in calls :
          (c.op \in {"addTodo", "updateTodo"} /\ Resolve(c)) =>
            /\ \A id \in (IdsOf(todos) \cup IdsOf(archivedTodos)) \ {c.todo.id} :
                 Copies(todos', archivedTodos', id) = Copies(todos, archivedTodos, id)
            /\ Len(todos') = Len(todos)
            /\ Len(archivedTodos') = Len(archivedTodos)
            /\ ~Has(todos', UndefinedId)]_vars

\* C19: when the insert of an add succeeds, the entry that add appended to the
\* active list (still the object the add created) is replaced, at its position,
\* by the record the gateway returned, which is a record with the added text;
\* every other entry and the archived list are unchanged.
C19_InsertAnswerReplacesEntry ==
  [][\A c \in calls :
       (c.op = "addTodo" /\ Resolve(c)) =>
         /\ Len(todos') = Len(todos)
         /\ archivedTodos' = archivedTodos
         /\ \A i \in DOMAIN todos :
              IF todos[i].obj = c.k
              THEN /\ todos'[i] = c.data[1]
                   /\ todos'[i].id # UndefinedId
                   /\ todos'[i].text = c.todo.text
              ELSE todos'[i] = todos[i]]_vars

\* A blank add: TodoModel.create throws.
BlankAddStep ==
  \E in \in AddInputs, now \in Nows : IsBlank(in[1]) /\ AddStep(in[1], in[2], now)

\* An edit, unarchive or toggleComplete that names an id absent from the list
\* (for toggleComplete: from both lists) it looks in.
NotFoundStep ==
  \/ \E id \in CommandIds, fields \in EditFields :
       ~Has(todos, id) /\ (editTodoLocal(id, fields) \/ editTodoRemote(id, fields))
  \/ \E id \in CommandIds : ~Has(archivedTodos, id) /\ UnarchiveStep(id)
  \/ \E id \in CommandIds :
       /\ ~Has(todos, id) /\ ~Has(archivedTodos, id)
       /\ toggleCompleteLocal(id) \/ toggleCompleteRemote(id)

\* The gateway call of a command other than deleteTodo / deleteArchivedTodo, or
\* of the load, fails.
GatewayFailureStep ==
  \E c \in calls : c.why \notin {"delete", "deleteArchived"} /\ ResolveError(c)

\* C20: every error raised during a command reaches the caller as an error
\* outcome: after a blank add (ValidationError), a command on an absent id
\* (NotFoundError) and a failed gateway call of any command but remove and
\* removeArchived (PersistenceError), the outcome reported is an error.
C20_ErrorsSurfaced ==
  [][(BlankAddStep \/ NotFoundStep \/ GatewayFailureStep) => reported' # "none"]_vars

\* A command step that names an id absent from the list the command works on:
\* edit or remove with an id not in the active list, unarchive or removeArchived
\* with an id not in the archived list, toggleComplete with an id in neither.
NotFoundCommand ==
  \/ NotFoundStep
  \/ \E id \in CommandIds : ~Has(todos, id) /\ (deleteTodoLocal(id) \/ deleteTodoRemote(id))
  \/ \E id \in CommandIds :
       ~Has(archivedTodos, id) /\ (deleteArchivedTodoLocal(id) \/ deleteArchivedTodoRemote(id))

\* C21: a command that names an id absent from the list it expects it in leaves
\* both lists unchanged and reports a NotFoundError.
C21_NotFoundReported ==
  [][NotFoundCommand =>
       /\ UNCHANGED <<todos, archivedTodos>>
       /\ reported' = "NotFoundError"]_vars

\* The numbers of the calls in flight.
CallNumbers(cs) == { c.k : c \in cs }

\* C22: a step issues at most as many gateway calls as it holds commands and
\* loads (one or none), a step in which a call fails or returns issues none, and
\* the calls in flight are never more than the commands and loads so far: no
\* call is issued twice.
C22_OneCallPerCommandNoRetry ==
  /\ [][/\ Cardinality(CallNumbers(calls') \ CallNumbers(calls)) <= nOps' - nOps
         /\ \A c \in calls :
              (ResolveError(c) \/ Resolve(c)) => CallNumbers(calls') = CallNumbers(calls) \ {c.k}]_vars
  /\ [](/\ Cardinality(CallNumbers(calls)) = Cardinality(calls)
        /\ CallNumbers(calls) \subseteq 0..nOps
        /\ Cardinality(calls) <= nOps + 1)

\* A call has failed and was not sent again: the record that an add created is
\* still in the active list as the created object, no call of that add is in
\* flight, and the console has the error.
C22_Witness ==
  /\ variant = "remote"
  /\ service = "supabase"
  /\ logged
  /\ \E i \in DOMAIN todos :
       /\ todos[i].obj > 0
       /\ \A c \in calls : c.k # todos[i].obj

\* An operation fails: TodoModel.create throws, or a gateway call is rejected.
FailureStep == BlankAddStep \/ \E c \in calls : ResolveError(c)

\* C23: the hook stays usable after a failed operation: the failure leaves it
\* mounted, and once an operation has failed (the console holds its error), an
\* add whose insert succeeds still ends with its record, carrying the added
\* text, in the active list.
C23_UsableAfterFailure ==
  /\ [][FailureStep => ~Crashed']_vars
  /\ [][\A c \in calls :
          (/\ logged
           /\ c.op = "addTodo"
           /\ Resolve(c)
           /\ \E i \in DOMAIN todos : todos[i].obj = c.k) =>
            \E i \in DOMAIN todos' :
              /\ todos'[i].id # UndefinedId
              /\ todos'[i].text = c.todo.text]_vars

-----------------------------------------------------------------------------
\* The todos table under its row-level policies, on its own: any client that
\* holds a session of identity auth may send any insert, update or delete.

\* A policy that lets every new row pass.
WithCheckPermissive(item, auth) == TRUE

\* with check ( auth.uid()::text = user_id ): the insert and update policies.
WithCheck(item, auth) == item.user_id = auth

\* insert([item]): the new row must pass the insert policy, or the request fails.
insertRows(rows, item, auth) == IF WithCheck(item, auth) THEN Append(rows, item) ELSE rows

\* update(patch).eq('id', id): the rows the update policy shows are changed; the
\* request fails as a whole when a changed row does not pass the check.
patchRows(rows, id, patch, auth) ==
  LET hit(item) == item.id = id /\ Visible(item, auth)
      new(item) == [f \in DOMAIN item |-> IF f \in DOMAIN patch THEN patch[f] ELSE item[f]]
  IN  IF \E i \in DOMAIN rows : hit(rows[i]) /\ ~WithCheck(new(rows[i]), auth)
      THEN rows
      ELSE MapSeq(rows, LAMBDA item : IF hit(item) THEN new(item) ELSE item)

\* select('*'): the rows the select policy shows.
selectRows(rows, auth) == SelectSeq(rows, LAMBDA item : Visible(item, auth))

\* The patches a client may send: a field of the row, or another user_id.
Patches == {[completed |-> TRUE]} \cup { [user_id |-> v] : v \in Users }

TableFrame ==
  UNCHANGED <<variant, service, userId, todos, archivedTodos, storage, effq, dirty,
              calls, clock, nOps, reported, logged, authVars, leftWith>>

\* The client with the session of auth inserts a row with user_id uid.
TableInsert(auth, uid) ==
  /\ variant = "table"
  /\ nextRowId <= MaxRows
  /\ db' = insertRows(db, [id |-> nextRowId, text |-> <<"x">>, completed |-> FALSE,
                           due_date |-> "2024-01-01", user_id |-> uid], auth)
  /\ nextRowId' = nextRowId + 1
  /\ TableFrame

TableUpdate(auth, id, patch) ==
  /\ variant = "table"
  /\ db' = patchRows(db, id, patch, auth)
  /\ UNCHANGED nextRowId
  /\ TableFrame

TableDelete(auth, id) ==
  /\ variant = "table"
  /\ db' = deleteTodoRows(db, id, auth)
  /\ UNCHANGED nextRowId
  /\ TableFrame

InitTable ==
  /\ variant = "table"
  /\ service = "supabase"
  /\ userId = "A"
  /\ todos = << >>
  /\ archivedTodos = << >>
  /\ storage = EmptyStorage
  /\ effq = << >>
  /\ dirty = {}
  /\ db = << >>
  /\ nextRowId = 1
  /\ calls = {}
  /\ clock = Now0
  /\ nOps = 0
  /\ reported = "none"
  /\ logged = FALSE
  /\ AppNotMounted
  /\ leftWith = NeverLeft

NextTable ==
  \/ \E auth \in Users, uid \in Users : TableInsert(auth, uid)
  \/ \E auth \in Users, id \in 1..MaxRows, patch \in Patches : TableUpdate(auth, id, patch)
  \/ \E auth \in Users, id \in 1..MaxRows : TableDelete(auth, id)

SpecTable == InitTable /\ [][NextTable]_vars

\* Some request of the client with the session of auth.
TableRequest(auth) ==
  \/ \E uid \in Users : TableInsert(auth, uid)
  \/ \E id \in 1..MaxRows, patch \in Patches : TableUpdate(auth, id, patch)
  \/ \E id \in 1..MaxRows : TableDelete(auth, id)

\* The rows of the users other than auth.
OtherRows(rows, auth) == SelectSeq(rows, LAMBDA item : item.user_id # auth)

\* C24: under the row-level policies a client with the session of u reads
\* exactly the rows whose user_id is u; its inserts, updates and deletes leave
\* the rows of every other user as they were and add none to them; and no
\* request changes the user_id of a row.
C24_RowLevelIsolation ==
  /\ [](\A u \in Users :
          /\ \A i \in DOMAIN selectRows(db, u) : selectRows(db, u)[i].user_id = u
          /\ Len(selectRows(db, u)) + Len(OtherRows(db, u)) = Len(db))
  /\ [][\A u \in Users : TableRequest(u) => OtherRows(db', u) = OtherRows(db, u)]_vars
  /\ [][\A i \in DOMAIN db, j \in DOMAIN db' :
          db[i].id = db'[j].id => db[i].user_id = db'[j].user_id]_vars

\* The table holds a row of each user, one of them updated, after a row was
\* deleted or an insert was refused.
C24_Witness ==
  /\ variant = "table"
  /\ \E i, j \in DOMAIN db :
       /\ db[i].user_id = "A"
       /\ db[j].user_id = "B"
       /\ db[j].completed
  /\ Len(db) < nextRowId - 1

-----------------------------------------------------------------------------

\* The local hook has run every effect of its last render.
EffectsDone == variant = "local" /\ effq = << >> /\ dirty = {}

\* C25: in the localStorage variant, once the effects have run, the entry
\* todos_<userId> is the serialized active list and the entry
\* archivedTodos_<userId> is the serialized archived list, two separate entries;
\* loading them gives both lists back, the same records in the same order.
C25_EntriesMirrorLists ==
  EffectsDone =>
    /\ storage[userId].todos = Saved(JSONstringify(todos))
    /\ storage[userId].archivedTodos = Saved(JSONstringify(archivedTodos))
    /\ JSONstringify(LoadSaved(storage[userId].todos)) = JSONstringify(todos)
    /\ JSONstringify(LoadSaved(storage[userId].archivedTodos)) = JSONstringify(archivedTodos)
    /\ Len(LoadSaved(storage[userId].todos)) = Len(todos)
    /\ Len(LoadSaved(storage[userId].archivedTodos)) = Len(archivedTodos)

\* The effects have run after a command that moved a record to the archived
\* list, and the entry of the archived list holds it.
C25_Witness ==
  /\ EffectsDone
  /\ nOps > 0
  /\ archivedTodos # << >>
  /\ storage[userId].archivedTodos.json # << >>
  /\ storage[userId].todos.saved

-----------------------------------------------------------------------------

\* The position of the record that find returns: the first entry with the id.
IndexOf(list, id) ==
  CHOOSE i \in DOMAIN list : list[i].id = id /\ \A j \in 1..(i - 1) : list[j].id # id

EditStep(id, fields) == editTodoLocal(id, fields) \/ editTodoRemote(id, fields)

\* C26: edit(id, fields) on a record of the active list puts the fields into
\* that record where it stands: the list keeps its length, the entry at the
\* record's position has the given fields and the record's other fields; and
\* when the update of the edit fails, the lists are left as they are, edited
\* values included.
C26_EditMergesNoRollback ==
  /\ [][\A id \in CommandIds, fields \in EditFields :
          (EditStep(id, fields) /\ Has(todos, id)) =>
            /\ Len(todos') = Len(todos)
            /\ \A f \in {"id", "text", "completed", "dueDate"} :
                 todos'[IndexOf(todos, id)][f] =
                   IF f \in DOMAIN fields THEN fields[f] ELSE Find(todos, id)[f]]_vars
  /\ [][\A c \in calls :
          (c.why = "edit" /\ ResolveError(c)) => UNCHANGED <<todos, archivedTodos>>]_vars

\* The update of an edit has failed and the edited text is still in the active
\* list: the record has its canonical id, the row of that id still has the old
\* text, and no call of an edit is in flight.
C26_Witness ==
  /\ logged
  /\ \A c \in calls : c.why # "edit"
  /\ \E i \in DOMAIN todos, j \in DOMAIN db :
       /\ todos[i].id = db[j].id
       /\ todos[i].text = << >>
       /\ db[j].text # << >>

\* The removal half of C27: a remove takes every entry with the id out of its
\* list in the step that issues the gateway call, and a failed gateway remove
\* leaves both lists as they are.
RemovalNotUndone ==
  /\ \A id \in CommandIds :
       /\ deleteTodoRemote(id) =>
            /\ ~Has(todos', id)
            /\ \E c \in calls' \ calls : c.op = "deleteTodo" /\ c.todo.id = id
       /\ deleteArchivedTodoRemote(id) =>
            /\ ~Has(archivedTodos', id)
            /\ \E c \in calls' \ calls : c.op = "deleteTodo" /\ c.todo.id = id
  /\ \A c \in calls :
       (c.op = "deleteTodo" /\ ResolveError(c)) => UNCHANGED <<todos, archivedTodos>>

\* C27: remove and removeArchived take the record out of their list before the
\* gateway remove resolves; when the gateway remove fails the record stays out
\* and the error is reported.
C27_RemoveNotUndoneReported ==
  [][/\ RemovalNotUndone
     /\ \A c \in calls :
          (c.op = "deleteTodo" /\ ResolveError(c)) => reported' = "PersistenceError"]_vars

-----------------------------------------------------------------------------
\* The App component with Supabase Auth (view/App.jsx).

\* What supabase.auth may hold: no session, or the session of a user.
Sessions == {NoSession} \cup Users

\* What App returns from its render.
View == IF loading THEN "loading" ELSE IF session = NoSession THEN "login" ELSE "main"

\* const userId = session?.user?.id || 'anonymous'
AppUserId(s) == IF s = NoSession THEN "anonymous" ELSE s

\* App and supabase.auth touch neither the lists nor the table.
AppFrame ==
  UNCHANGED <<variant, service, todos, archivedTodos, storage, effq, dirty, db, nextRowId,
              calls, clock, reported, logged, leftWith>>

\* The session of supabase.auth changes (sign in, sign out, in this tab or in
\* another one); the listener is notified of the new session.
AuthChange(s) ==
  /\ variant = "app"
  /\ nOps < MaxOps
  /\ s # authSession
  /\ authSession' = s
  /\ events' = Append(events, s)
  /\ nOps' = nOps + 1
  /\ UNCHANGED <<session, loading, getSession, userId>>
  /\ AppFrame

\* supabase.auth settles the promise of getSession with the session it holds.
GetSessionAnswer ==
  /\ variant = "app"
  /\ getSession.stage = "sent"
  /\ getSession' = [stage |-> "answered", data |-> authSession]
  /\ UNCHANGED <<session, loading, authSession, events, userId, nOps>>
  /\ AppFrame

\* .then(({ data: { session } }) => { setSession(session); setLoading(false) })
GetSessionThen ==
  /\ variant = "app"
  /\ getSession.stage = "answered"
  /\ session' = getSession.data
  /\ loading' = FALSE
  /\ userId' = AppUserId(session')
  /\ getSession' = [stage |-> "done", data |-> NoSession]
  /\ UNCHANGED <<authSession, events, nOps>>
  /\ AppFrame

\* onAuthStateChange((_event, session) => { setSession(session); setLoading(false) }),
\* called with the oldest change not yet delivered.
OnAuthStateChange ==
  /\ variant = "app"
  /\ events # << >>
  /\ session' = Head(events)
  /\ loading' = FALSE
  /\ userId' = AppUserId(session')
  /\ events' = Tail(events)
  /\ UNCHANGED <<authSession, getSession, nOps>>
  /\ AppFrame

\* App as mounted: useState(null), useState(true), getSession called, the
\* listener subscribed.
InitApp ==
  /\ variant = "app"
  /\ service = "supabase"
  /\ userId = AppUserId(NoSession)
  /\ todos = << >>
  /\ archivedTodos = << >>
  /\ storage = EmptyStorage
  /\ effq = << >>
  /\ dirty = {}
  /\ db = << >>
  /\ nextRowId = 1
  /\ calls = {}
  /\ clock = Now0
  /\ nOps = 0
  /\ reported = "none"
  /\ logged = FALSE
  /\ session = NoSession
  /\ loading = TRUE
  /\ authSession \in Sessions
  /\ getSession = [stage |-> "sent", data |-> NoSession]
  /\ events = << >>
  /\ leftWith = NeverLeft

NextApp ==
  \/ \E s \in Sessions : AuthChange(s)
  \/ GetSessionAnswer
  \/ GetSessionThen
  \/ OnAuthStateChange

SpecApp == InitApp /\ [][NextApp]_vars

\* Nothing is on its way to App: the promise of getSession has been handled
\* and the listener has been called with every change.
AuthSettled == getSession.stage = "done" /\ events = << >>

\* Auth initialization has answered: the callback of getSession has run, or the
\* listener has been called (nOps counts the changes, events those not delivered).
AuthAnswered == getSession.stage = "done" \/ nOps > Len(events)

\* What the view shows follows the session App holds: loading until a callback
\* has run, then the login screen without a session and the lists with one.
ViewFollowsAppSession ==
  /\ loading => View = "loading"
  /\ (~loading /\ session = NoSession) => View = "login"
  /\ View = "main" => (session \in Users /\ AuthAnswered)

\* C29: App shows the lists only with an authenticated session and after auth
\* initialization has answered, the loading state while loading and the login
\* screen without a session; once every auth state change has been delivered,
\* the view is that of the session supabase.auth holds.
C29_ViewMatchesLatestSession ==
  /\ ViewFollowsAppSession
  /\ (variant = "app" /\ AuthSettled) => (~loading /\ session = authSession)

-----------------------------------------------------------------------------
\* The lists as the view sees them once the command that issued call c has
\* returned: the record the call carries is in the list its completed flag
\* names, and a removed id is gone from the list it was removed from.
OptimisticShown(c, ts, as) ==
  CASE c.why = "add" -> c.todo \in Records(ts)
    [] c.why = "toggle" -> c.todo \in Records(IF c.todo.completed THEN as ELSE ts)
    [] c.why = "edit" -> c.todo \in Records(ts)
    [] c.why = "unarchive" -> c.todo \in Records(ts) /\ ~Has(as, c.todo.id)
    [] c.why = "delete" -> ~Has(ts, c.todo.id)
    [] c.why = "deleteArchived" -> ~Has(as, c.todo.id)
    [] OTHER -> TRUE

\* C30: in the Supabase variant the step that issues the gateway call of add,
\* toggleComplete, edit, remove, removeArchived or unarchive is the step that
\* shows the optimistic change, so the change is in the lists while the call
\* is still unresolved and no call is in flight without it; the resolution of
\* add's call sets the active list again.
C30_OptimisticBeforeCall ==
  /\ [][\A c \in calls' \ calls :
         (variant = "remote" /\ nOps' = nOps + 1 /\ c.k = nOps') =>
           OptimisticShown(c, todos', archivedTodos')]_vars
  /\ [][\A c \in calls :
         (c.op = "addTodo" /\ Resolve(c) /\ \E i \in DOMAIN todos : todos[i].obj = c.k) =>
           /\ todos' # todos
           /\ c.data[1] \in Records(todos')]_vars

\* The call of a toggleComplete has not reached the table, the table still has
\* the record as not completed, and the archived list already shows it completed.
C30_Witness ==
  \E c \in calls, j \in DOMAIN db :
    /\ c.why = "toggle"
    /\ c.stage = "sent"
    /\ db[j].id = c.todo.id
    /\ ~db[j].completed
    /\ c.todo \in Records(archivedTodos)

-----------------------------------------------------------------------------
\* C31: edit changes only the record with the id in the active list: every
\* other entry of the active list stays as it is and where it is, and the
\* archived list is unchanged, also when the id names an archived record.
C31_EditChangesOneRecord ==
  [][\A id \in CommandIds, fields \in EditFields :
       EditStep(id, fields) =>
         /\ archivedTodos' = archivedTodos
         /\ Len(todos') = Len(todos)
         /\ \A i \in DOMAIN todos :
              (~Has(todos, id) \/ i # IndexOf(todos, id)) => todos'[i] = todos[i]]_vars

\* The part of C31 that looks at ids only: entries with another id and the
\* archived list are left alone.
EditLeavesOtherIds ==
  [][\A id \in CommandIds, fields \in EditFields :
       EditStep(id, fields) =>
         /\ archivedTodos' = archivedTodos
         /\ Len(todos') = Len(todos)
         /\ \A i \in DOMAIN todos : todos[i].id # id => todos'[i] = todos[i]]_vars

\* C32: in the Supabase variant every record of the active list has
\* completed = false and every record of the archived list has completed = true,
\* in every reachable state.
C32_ListsMatchCompleted ==
  variant = "remote" =>
    /\ \A i \in DOMAIN todos : ~todos[i].completed
    /\ \A i \in DOMAIN archivedTodos : archivedTodos[i].completed

\* The only command so far was an add, its insert and the initial load have
\* both resolved without an error, and nothing is in flight.
OneAddAndLoadResolved ==
  /\ variant = "remote"
  /\ service = "supabase"
  /\ nOps = 1
  /\ Len(db) = 1
  /\ calls = {}
  /\ ~logged

\* C33: in the Supabase variant a record added while the initial load of the
\* same owner is in flight is in the active list once the load and the insert
\* have both resolved successfully.
C33_LoadKeepsAddedRecord ==
  OneAddAndLoadResolved => Has(todos, db[1].id)

\* An id taken from Date.now(); the table's identity values stay below Now0.
IsTemporaryId(id) == id >= Now0

\* C34: in the Supabase variant, once the insert of every add has resolved
\* successfully, no record of either list carries a temporary id, also when the
\* record was edited or toggled while its insert was in flight.
C34_NoTemporaryIdAfterInsert ==
  (/\ variant = "remote"
   /\ service = "supabase"
   /\ ~logged
   /\ \A c \in calls : c.op # "addTodo") =>
    \A id \in IdsOf(todos) \cup IdsOf(archivedTodos) : ~IsTemporaryId(id)

\* The rows of the table that belong to u, as getAllTodos would return them.
OwnerRows(u) == Records(getAllTodosData(db, u))

\* The records of both lists without the object identity, which no row has.
StoreRecords ==
  { [t EXCEPT !.obj = 0] : t \in Records(todos) \cup Records(archivedTodos) }

\* C35: in the Supabase variant, when no gateway call has failed and none is in
\* flight, the lists and the owner's rows of the table agree: the same ids, and
\* for each id the same text, due date and completed value.
C35_StoreAgreesWithTable ==
  (/\ variant = "remote"
   /\ service = "supabase"
   /\ ~logged
   /\ calls = {}) =>
    /\ IdsOf(todos) \cup IdsOf(archivedTodos) = { r.id : r \in OwnerRows(userId) }
    /\ \A t \in StoreRecords, r \in OwnerRows(userId) :
         t.id = r.id => /\ t.text = r.text
                        /\ t.dueDate = r.dueDate
                        /\ t.completed = r.completed

-----------------------------------------------------------------------------
\* Two commands of the localStorage hook called from one render.

\* A call of a command: the command, the id it names (for addTodo, the reading
\* of Date.now()), and its other arguments.
CommandCall(op, id, args) == [op |-> op, id |-> id, args |-> args]

\* The calls a handler can make on the rendered lists.
CommandCalls ==
  { CommandCall("addTodo", now, in) :
      now \in Nows, in \in { i \in AddInputs : ~IsBlank(i[1]) } }
  \cup { CommandCall(op, id, << >>) :
           op \in {"toggleComplete", "deleteTodo", "unarchiveTodo", "deleteArchivedTodo"},
           id \in CommandIds }
  \cup { CommandCall("editTodo", id, fields) : id \in CommandIds, fields \in EditFields }
  \cup { CommandCall("archiveCompleted", NoSuchId, << >>) }

\* What the call hands to setTodos and to setArchivedTodos when the lists of its
\* closure are ts and as: << >> when the setter is not called, <<value>> when
\* it is.  k numbers the object an addTodo creates, u is the userId.
SetterCalls(c, ts, as, k, u) ==
  CASE c.op = "addTodo" ->
         << <<addTodoLocalState(ts, TodoModel(c.args[1], c.args[2], c.id, k, u))>>, << >> >>
    [] c.op = "toggleComplete" -> << <<toggleCompleteLocalState(ts, c.id)>>, << >> >>
    [] c.op = "editTodo" -> << <<editTodoLocalState(ts, c.id, c.args)>>, << >> >>
    [] c.op = "deleteTodo" -> << <<RemoveId(ts, c.id)>>, << >> >>
    [] c.op = "archiveCompleted" ->
         << <<archiveCompletedLocalState(ts, as)[1]>>, <<archiveCompletedLocalState(ts, as)[2]>> >>
    [] c.op = "unarchiveTodo" ->
         IF Has(as, c.id)
         THEN << <<unarchiveTodoLocalState(ts, as, c.id)[1]>>,
                 <<unarchiveTodoLocalState(ts, as, c.id)[2]>> >>
         ELSE << << >>, << >> >>
    [] c.op = "deleteArchivedTodo" -> << << >>, <<RemoveId(as, c.id)>> >>

\* The state after the setter calls sc have been rendered over lists ts and as.
Rendered(sc, ts, as) ==
  << IF sc[1] = << >> THEN ts ELSE sc[1][1], IF sc[2] = << >> THEN as ELSE sc[2][1] >>

\* c1 rendered, then c2 called on the new render.
OneAfterTheOther(c1, c2, ts, as, k, u) ==
  LET mid == Rendered(SetterCalls(c1, ts, as, k, u), ts, as)
  IN  Rendered(SetterCalls(c2, mid[1], mid[2], k + 1, u), mid[1], mid[2])

\* c1 and c2 called on the same render: both closures hold ts and as, and React
\* renders with the last value each setter was given.
FromOneRender(c1, c2, ts, as, k, u) ==
  LET mid == Rendered(SetterCalls(c1, ts, as, k, u), ts, as)
      sc2 == SetterCalls(c2, ts, as, k + 1, u)
  IN  Rendered(sc2, mid[1], mid[2])

\* A handler calls c1 and then c2 before React renders.
DispatchTwoLocal(c1, c2) ==
  /\ LocalIdle
  /\ nOps + 2 <= MaxOps
  /\ todos' = FromOneRender(c1, c2, todos, archivedTodos, nOps + 1, userId)[1]
  /\ archivedTodos' = FromOneRender(c1, c2, todos, archivedTodos, nOps + 1, userId)[2]
  /\ LET sc1 == SetterCalls(c1, todos, archivedTodos, nOps + 1, userId)
         sc2 == SetterCalls(c2, todos, archivedTodos, nOps + 2, userId)
     IN  effq' = (IF sc1[1] # << >> \/ sc2[1] # << >>
                  THEN <<SaveTodosEffect(userId, todos')>> ELSE << >>)
                 \o (IF sc1[2] # << >> \/ sc2[2] # << >>
                     THEN <<SaveArchivedEffect(userId, archivedTodos')>> ELSE << >>)
  /\ clock' = IF c2.op = "addTodo" THEN c2.id ELSE IF c1.op = "addTodo" THEN c1.id ELSE clock
  /\ nOps' = nOps + 2
  /\ reported' = "none"
  /\ leftWith' = [leftWith EXCEPT ![userId] = Null]
  /\ UNCHANGED <<variant, service, userId, storage, dirty, logged, authVars>>
  /\ UNCHANGED remoteVars

NextTwoLocal ==
  \/ NextLocal
  \/ \E c1 \in CommandCalls, c2 \in CommandCalls : DispatchTwoLocal(c1, c2)

SpecTwoLocal == InitLocalHook /\ [][NextTwoLocal]_vars

\* C36: in the localStorage variant two commands called one after the other
\* from the same render leave the lists that calling the second on the render
\* of the first would leave: neither command's effect is lost.
C36_TwoCommandsAsSequential ==
  [][\A c1 \in CommandCalls, c2 \in CommandCalls :
       DispatchTwoLocal(c1, c2) =>
         <<todos', archivedTodos'>> =
           OneAfterTheOther(c1, c2, todos, archivedTodos, nOps + 1, userId)]_vars

-----------------------------------------------------------------------------
\* C37: in the Supabase variant remove(id) issues a gateway remove only when
\* the id is in the active list, and removeArchived(id) only when it is in the
\* archived list; otherwise no call is issued and both lists stay as they are.
C37_RemoveOnlyWhenPresent ==
  [][\A id \in CommandIds :
       /\ (deleteTodoRemote(id) /\ ~Has(todos, id)) =>
            UNCHANGED <<todos, archivedTodos, calls>>
       /\ (deleteArchivedTodoRemote(id) /\ ~Has(archivedTodos, id)) =>
            UNCHANGED <<todos, archivedTodos, calls>>]_vars

\* The row of a record that is still in one of the lists is not deleted.
RowOfResidentKept ==
  [][\A c \in calls :
       (c.op = "deleteTodo" /\ Resolve(c) /\ service = "supabase"
          /\ (Has(todos, c.todo.id) \/ Has(archivedTodos, c.todo.id))) => db' = db]_vars

-----------------------------------------------------------------------------
\* The local hook has run every effect and render of its last event.
LocalSettled == variant = "local" /\ effq = << >> /\ dirty = {}

-----------------------------------------------------------------------------
\* A command of the localStorage hook other than archiveCompleted and
\* unarchiveTodo.
OtherLocalCommand ==
  \/ \E in \in AddInputs, now \in Nows : addTodoLocal(in[1], in[2], now)
  \/ \E id \in CommandIds : toggleCompleteLocal(id)
  \/ \E id \in CommandIds, fields \in EditFields : editTodoLocal(id, fields)
  \/ \E id \in CommandIds : deleteTodoLocal(id)
  \/ \E id \in CommandIds : deleteArchivedTodoLocal(id)

\* The part of C39 that looks at ids only: toggleComplete keeps the archived
\* list and the length and order of the active list, flips the completed flag
\* of the entries with the id and leaves every field of every entry with
\* another id; no other command than archiveCompleted and unarchiveTodo
\* changes both lists.
ToggleFlipsInPlace ==
  /\ [][\A id \in CommandIds :
         toggleCompleteLocal(id) =>
           /\ archivedTodos' = archivedTodos
           /\ Len(todos') = Len(todos)
           /\ \A i \in DOMAIN todos :
                todos'[i] = IF todos[i].id = id
                            THEN [todos[i] EXCEPT !.completed = ~todos[i].completed, !.obj = 0]
                            ELSE todos[i]]_vars
  /\ [][OtherLocalCommand => (archivedTodos' = archivedTodos \/ todos' = todos)]_vars

\* C39: in the localStorage variant toggleComplete flips the completed flag of
\* the one matching record of the active list and changes nothing else: the
\* archived list is unchanged, the active list keeps its length and order and
\* every other entry; only archiveCompleted and unarchiveTodo move records
\* between the lists.
C39_LocalToggleFlipsOneRecord ==
  /\ [][\A id \in CommandIds :
         toggleCompleteLocal(id) =>
           /\ archivedTodos' = archivedTodos
           /\ Len(todos') = Len(todos)
           /\ \A i \in DOMAIN todos :
                todos'[i] = IF Has(todos, id) /\ i = IndexOf(todos, id)
                            THEN [todos[i] EXCEPT !.completed = ~todos[i].completed, !.obj = 0]
                            ELSE todos[i]]_vars
  /\ [][OtherLocalCommand => (archivedTodos' = archivedTodos \/ todos' = todos)]_vars


====
